---- MODULE Spec2Model ----
(***************************************************************************)
(* Model of the Firebase Cloud Messaging topic driver of                   *)
(* pubsub/firebase/firebase.go: fcmTopic.SendBatch as a step machine (one  *)
(* step per loop iteration and one per backend call), the escape-hatch     *)
(* methods as operators, and the topic configuration built by              *)
(* OpenFCMTopic.  Every SendBatch invocation is one process of Procs; the  *)
(* batching engine runs at most bo.MaxHandlers of them at a time.          *)
(***************************************************************************)
EXTENDS Integers, Sequences, FiniteSets, TLC

\* ---------------------------------------------------------------- bounds
\* longest batch the batching engine hands to SendBatch in this model
MaxBatch == 3
\* number of batch handler slots of the model
NumProcs == 2
\* longest batch when two handlers run at the same time
ConcBatch == 1
\* number of topics opened one after the other
MaxOpens == 2

Procs == 1..NumProcs

VARIABLES opts, bo, dms, pc, n, entries, resp, ret, trace, code,
          retry, slot, client, sendBatchOpts, opened

vars == <<opts, bo, dms, pc, n, entries, resp, ret, trace, code,
          retry, slot, client, sendBatchOpts, opened>>

\* ---------------------------------------------------------------- values
\* the nil error
Nil == [kind |-> "nil", at |-> 0]
\* SendBatch has not returned yet
Pending == [kind |-> "pending", at |-> 0]
\* a nil-pointer / nil-interface dereference unwinding the call
Panic == [kind |-> "panic", at |-> 0]

\* the zero value of messaging.Message (firebase.go:65)
ZeroMessage == [Token |-> 0, Data |-> 0]

\* resp before the backend answered (var resp *messaging.BatchResponse)
NilResponse == [SuccessCount |-> 0, FailureCount |-> 0, Responses |-> <<>>]

\* A request payload: the JSON text of a message naming the device token
\* `token`, or bytes that are no JSON message.
Body(wellFormed, token) == [wellFormed |-> wellFormed, token |-> token]

\* ---------------------------------------------------------------- helpers
RECURSIVE CountTrue(_)
CountTrue(s) ==
    IF s = <<>> THEN 0
    ELSE (IF Head(s) THEN 1 ELSE 0) + CountTrue(Tail(s))

\* messaging.Message.UnmarshalJSON as called at firebase.go:66: parses the
\* payload into the entry, or reports an error and leaves the entry zero.
UnmarshalJSON(body) ==
    IF body.wellFormed
    THEN [err |-> Nil, msg |-> [Token |-> body.token, Data |-> 0]]
    ELSE [err |-> [kind |-> "decode", at |-> body.token], msg |-> ZeroMessage]

\* messaging.Client.SendAll / SendAllDryRun answering a call without a
\* call-level error: one response per message, index-aligned, Success
\* exactly when the entry carries no error, and the two counts counting
\* the entries (firebase.go:86, 88).
BatchResponse(msgs, sv) ==
    LET rs == [i \in 1..Len(msgs) |->
                 [Success |-> sv[i],
                  Error   |-> IF sv[i] THEN Nil
                              ELSE [kind |-> "fcm", at |-> msgs[i].Token],
                  For     |-> msgs[i].Token]]
        ok == CountTrue(sv)
    IN [SuccessCount |-> ok, FailureCount |-> Len(msgs) - ok, Responses |-> rs]

\* every answer the backend can give to one call (firebase.go:85-89)
BackendOutcomes(msgs) ==
    {[err |-> [kind |-> "transport", at |-> 0], resp |-> NilResponse]}
    \cup {[err |-> Nil, resp |-> BatchResponse(msgs, sv)] :
            sv \in [1..Len(msgs) -> BOOLEAN]}

\* one record of what the call did to its collaborators
Event(ev, idx, arg, err) == [ev |-> ev, idx |-> idx, arg |-> arg, err |-> err]

\* ---------------------------------------------------------------- state
\* the batches of the model: request i carries the payload of token i, well
\* formed or not, and each hook is supplied or nil
Batches ==
    UNION {{[i \in 1..k |-> [Body |-> Body(w[i], i), BeforeSend |-> b[i], AfterSend |-> a[i]]] :
              w \in [1..k -> BOOLEAN], b \in [1..k -> BOOLEAN], a \in [1..k -> BOOLEAN]} :
           k \in 1..MaxBatch}

\* DefaultMaxBatchSize and DefaultMaxHandlers: the fields of sendBatchOpts
DefaultMaxBatchSize == 500
DefaultMaxHandlers == 50

\* var sendBatchOpts = &batcher.Options{MaxBatchSize: 500, MaxHandlers: 50}
DefaultBatcherOptions ==
    [MaxBatchSize |-> DefaultMaxBatchSize, MaxHandlers |-> DefaultMaxHandlers]

\* a nil *batcher.Options
NilBatcherOptions == [present |-> FALSE, MaxBatchSize |-> 0, MaxHandlers |-> 0]

\* BacherOptions of the caller: unset (0), small, or above the default
BatcherArgs ==
    {NilBatcherOptions}
    \cup [present : {TRUE},
          MaxBatchSize : {0, 1, MaxBatch, DefaultMaxBatchSize + 100},
          MaxHandlers : {0, 1, DefaultMaxHandlers + 10}]

\* a nil *TopicOptions
NilTopicOptions ==
    [present |-> FALSE, DryRun |-> FALSE, MetricService |-> FALSE, Logger |-> FALSE,
     BacherOptions |-> NilBatcherOptions]

\* the opts argument of OpenFCMTopic: nil, or options with or without a
\* metrics sink and a logger and with any tuning
OpenArgs ==
    {NilTopicOptions}
    \cup {[present |-> TRUE, DryRun |-> FALSE, MetricService |-> sinks, Logger |-> sinks,
           BacherOptions |-> b] : sinks \in BOOLEAN, b \in BatcherArgs}

\* the caller supplies tuning
HasTuning(arg) == arg.present /\ arg.BacherOptions.present

\* batcher.Options.NewMergedOptions as called at firebase.go:43: a new
\* Options value, each field the smaller of the two where the override is set
NewMergedOptions(o, over) ==
    [MaxBatchSize |->
        IF over.MaxBatchSize # 0 /\ (o.MaxBatchSize = 0 \/ over.MaxBatchSize < o.MaxBatchSize)
        THEN over.MaxBatchSize ELSE o.MaxBatchSize,
     MaxHandlers |->
        IF over.MaxHandlers # 0 /\ (o.MaxHandlers = 0 \/ over.MaxHandlers < o.MaxHandlers)
        THEN over.MaxHandlers ELSE o.MaxHandlers]

\* bo of OpenFCMTopic: the package default g, merged with the caller's tuning
MergedTuning(g, arg) ==
    IF HasTuning(arg) THEN NewMergedOptions(g, arg.BacherOptions) ELSE g

\* the merge is made in place, on the package default itself
DefaultsMergedInPlace(g, arg) == MergedTuning(g, arg)

\* sendBatchOpts after OpenFCMTopic(arg): nothing assigns to it
DefaultsAfterOpen(g, arg) == g

\* t.opts of the topic built by openFCMTopic
openFCMTopic(arg) ==
    IF ~arg.present
    THEN [DryRun |-> FALSE, MetricService |-> FALSE, Logger |-> FALSE]
    ELSE [DryRun |-> arg.DryRun, MetricService |-> arg.MetricService, Logger |-> arg.Logger]

\* the topic that OpenFCMTopic(arg) returns has been opened, as the first
Opened(arg) ==
    /\ opts = openFCMTopic(arg)
    /\ bo = MergedTuning(DefaultBatcherOptions, arg)
    /\ sendBatchOpts = DefaultsAfterOpen(DefaultBatcherOptions, arg)
    /\ opened = <<[arg |-> arg, bo |-> bo]>>

\* options with a metrics sink, a logger and the given flag and tuning
Options(dry, maxBatchSize, maxHandlers) ==
    [present |-> TRUE, DryRun |-> dry, MetricService |-> TRUE, Logger |-> TRUE,
     BacherOptions |->
        [present |-> TRUE, MaxBatchSize |-> maxBatchSize, MaxHandlers |-> maxHandlers]]

\* the backend client the topic was opened with
FCMClient == "client of the topic"

\* a target of As that nobody has passed yet
NoSlot == [type |-> "none", before |-> "nil", val |-> "nil", ok |-> FALSE]

\* the part of the state SendBatch never writes: the client of the topic, the
\* package-level default tuning and the tunings of the topics opened so far
topic == <<client, sendBatchOpts, opened>>

\* no escape-hatch method has been called
Unasked ==
    /\ retry = [p \in Procs |-> {}]
    /\ slot = NoSlot
    /\ client = FCMClient

\* no invocation has started
Idle ==
    /\ dms = [p \in Procs |-> <<>>]
    /\ pc = [p \in Procs |-> "idle"]
    /\ n = [p \in Procs |-> 0]
    /\ entries = [p \in Procs |-> <<>>]
    /\ resp = [p \in Procs |-> NilResponse]
    /\ ret = [p \in Procs |-> Pending]
    /\ trace = [p \in Procs |-> <<>>]
    /\ code = [p \in Procs |-> "none"]

\* A topic opened with a metrics sink and a logger, live or dry-run, whose
\* batching engine runs one handler at a time on batches of at most MaxBatch.
Init ==
    /\ \E dry \in BOOLEAN : Opened(Options(dry, MaxBatch, 1))
    /\ Idle
    /\ Unasked

\* ---------------------------------------------------------------- SendBatch
\* the Timing call is not deferred: an early return skips it
ReturnNoDefer(self, e) ==
    /\ ret' = [ret EXCEPT ![self] = e]
    /\ pc' = [pc EXCEPT ![self] = "done"]

\* `return e`: the deferred Timing call is what remains to run
Return(self, e) ==
    /\ ret' = [ret EXCEPT ![self] = e]
    /\ pc' = [pc EXCEPT ![self] = "defer"]

Emit(self, evs) == trace' = [trace EXCEPT ![self] = @ \o evs]

\* the decode error is dropped and the zero entry kept
DecodeFailedIgnored(r) == FALSE

\* if err := entry.UnmarshalJSON(dm.Body); err != nil
DecodeFailed(r) == r.err # Nil

\* the nil check of the hook is missing
HasBeforeSendUnchecked(dm) == TRUE

\* if dm.BeforeSend != nil
HasBeforeSend(dm) == dm.BeforeSend

\* the hook error is swallowed
BeforeSendReturnNil(err) == Nil

\* return err, of a before-send hook
BeforeSendReturn(err) == err

\* the entry is put in front
AppendEntryFront(es, entry) == <<entry>> \o es

\* the entries are kept in one slice of the topic, shared by its handlers
AppendEntryShared(es, entry) == Append(entries[1], entry)

\* entries = append(entries, entry)
AppendEntry(es, entry) == Append(es, entry)

\* the transport error is logged and swallowed
TransportReturnNil(err) == Nil

\* return err, of the backend call
TransportReturn(err) == err

\* the counter is emitted for a count of zero too
ShouldCountAlways(r) == r.FailureCount >= 0

\* if resp.FailureCount > 0
ShouldCount(r) == r.FailureCount > 0

\* int64(resp.FailureCount)
CountValue(r) == r.FailureCount

\* the success flag of the entry is not looked at
ShouldCallAfterSendAnyEntry(respEntity, dm) == dm.AfterSend

\* if respEntity.Success && dm.AfterSend != nil
ShouldCallAfterSend(respEntity, dm) == respEntity.Success /\ dm.AfterSend

\* *p = resp.Responses[n]
ExposedResponse(r, i) == r.Responses[i]

\* the hook error is swallowed
AfterSendReturnNil(err) == Nil

\* every entry is logged, failed or not
HasEntityErrorAlways(respEntity) == TRUE

\* if respEntity.Error != nil
HasEntityError(respEntity) == respEntity.Error # Nil

\* return err, of an after-send hook
AfterSendReturn(err) == err

\* if resp.SuccessCount == len(dms)
AllSucceeded(r, batch) == r.SuccessCount = Len(batch)

\* The batching engine hands a batch to a free handler: now := time.Now()
\* and the deferred Timing call is registered.
Call(self) ==
    /\ pc[self] = "idle"
    /\ self <= bo.MaxHandlers
    /\ \E batch \in Batches :
         /\ Len(batch) <= bo.MaxBatchSize
         /\ dms' = [dms EXCEPT ![self] = batch]
    /\ pc' = [pc EXCEPT ![self] = "loop"]
    /\ n' = [n EXCEPT ![self] = 1]
    /\ UNCHANGED <<opts, bo, entries, resp, ret, trace, code, retry, slot, topic>>

\* One iteration of the first loop: decode the payload, run the before-send
\* hook if there is one, append the entry.  The hook is the caller's code:
\* it returns an error or nil, and it may edit the message it was shown.
Loop(self) ==
    /\ pc[self] = "loop"
    /\ LET i == n[self]
           dm == dms[self][i]
           r == UnmarshalJSON(dm.Body)
       IN IF DecodeFailed(r)
          THEN /\ Return(self, r.err)
               /\ UNCHANGED <<n, entries, trace>>
          ELSE \E hookErr \in BOOLEAN, edit \in BOOLEAN :
                 LET called == HasBeforeSend(dm)
                     entry == IF called /\ edit THEN [r.msg EXCEPT !.Data = 1] ELSE r.msg
                     herr == IF hookErr THEN [kind |-> "beforeSend", at |-> i] ELSE Nil
                     ev == IF called THEN <<Event("BeforeSend", i, entry, herr)>> ELSE <<>>
                 IN IF called /\ hookErr
                    THEN /\ Emit(self, ev)
                         /\ Return(self, BeforeSendReturn(herr))
                         /\ UNCHANGED <<n, entries>>
                    ELSE /\ Emit(self, ev)
                         /\ entries' = [entries EXCEPT ![self] = AppendEntry(@, entry)]
                         /\ n' = [n EXCEPT ![self] = i + 1]
                         /\ pc' = [pc EXCEPT ![self] =
                                     IF i < Len(dms[self]) THEN "loop" ELSE "submit"]
                         /\ UNCHANGED ret
    /\ UNCHANGED <<opts, bo, dms, resp, code, retry, slot, topic>>

\* the live entry point is called whatever the flag says
EntryPointLive(dry) == "SendAll"

\* if t.opts.DryRun { SendAllDryRun } else { SendAll }
EntryPoint(dry) == IF dry THEN "SendAllDryRun" ELSE "SendAll"

\* the error of the backend call is not looked at
TransportFailedIgnored(err) == FALSE

\* if err != nil, after the backend call
TransportFailed(err) == err # Nil

\* What the submit step does with the answer o of the backend to the entries
\* es, on a topic with the given dry-run flag, logger and metrics sink: the
\* calls it makes, what it returns if it returns, the response it keeps and
\* where SendBatch goes on.
SubmitEffect(dry, logger, metric, es, o) ==
    LET call == Event(EntryPoint(dry), 0, es, o.err)
    IN IF TransportFailed(o.err)
       THEN IF logger
            THEN [events |-> <<call, Event("Logger.Error", 0, "response", o.err)>>,
                  ret |-> TransportReturn(o.err), resp |-> NilResponse, pc |-> "defer"]
            ELSE [events |-> <<call>>, ret |-> Panic, resp |-> NilResponse, pc |-> "defer"]
       ELSE IF ShouldCount(o.resp)
            THEN IF metric
                 THEN [events |-> <<call, Event("Count", 0, CountValue(o.resp), Nil)>>,
                       ret |-> Pending, resp |-> o.resp, pc |-> "reconcile"]
                 ELSE [events |-> <<call>>, ret |-> Panic, resp |-> o.resp, pc |-> "defer"]
            ELSE [events |-> <<call>>, ret |-> Pending, resp |-> o.resp, pc |-> "reconcile"]

\* The backend call, the transport-error return and the failure counter.
Submit(self) ==
    /\ pc[self] = "submit"
    /\ \E o \in BackendOutcomes(entries[self]) :
         LET eff == SubmitEffect(opts.DryRun, opts.Logger, opts.MetricService, entries[self], o)
         IN /\ Emit(self, eff.events)
            /\ ret' = [ret EXCEPT ![self] = eff.ret]
            /\ resp' = [resp EXCEPT ![self] = eff.resp]
            /\ pc' = [pc EXCEPT ![self] = eff.pc]
            /\ n' = [n EXCEPT ![self] = IF eff.pc = "reconcile" THEN 1 ELSE @]
    /\ UNCHANGED <<opts, bo, dms, entries, code, retry, slot, topic>>

\* One iteration of the loop over the responses: the after-send hook of a
\* successful entry, the log record of a failed one.
Reconcile(self) ==
    /\ pc[self] = "reconcile"
    /\ \E hookErr \in BOOLEAN :
         LET i == n[self]
             dm == dms[self][i]
             respEntity == resp[self].Responses[i]
             called == ShouldCallAfterSend(respEntity, dm)
             herr == IF hookErr THEN [kind |-> "afterSend", at |-> i] ELSE Nil
             hook == IF called
                     THEN <<Event("AfterSend", i, ExposedResponse(resp[self], i), herr)>>
                     ELSE <<>>
             log == Event("Logger.Error", i,
                          [requestEntity |-> entries[self][i], responseEntity |-> respEntity],
                          respEntity.Error)
         IN IF called /\ hookErr
            THEN /\ Emit(self, hook)
                 /\ Return(self, AfterSendReturn(herr))
                 /\ UNCHANGED n
            ELSE IF HasEntityError(respEntity) /\ ~opts.Logger
            THEN /\ Emit(self, hook)
                 /\ Return(self, Panic)
                 /\ UNCHANGED n
            ELSE /\ Emit(self, hook \o (IF HasEntityError(respEntity) THEN <<log>> ELSE <<>>))
                 /\ IF i < Len(dms[self])
                    THEN /\ n' = [n EXCEPT ![self] = i + 1]
                         /\ UNCHANGED <<pc, ret>>
                    ELSE IF AllSucceeded(resp[self], dms[self])
                    THEN /\ n' = [n EXCEPT ![self] = 1]
                         /\ pc' = [pc EXCEPT ![self] = "allSucceeded"]
                         /\ UNCHANGED ret
                    ELSE /\ Return(self, Nil)
                         /\ UNCHANGED n
    /\ UNCHANGED <<opts, bo, dms, entries, resp, code, retry, slot, topic>>

\* One iteration of the loop of the all-succeeded branch.
AllSucceededLoop(self) ==
    /\ pc[self] = "allSucceeded"
    /\ \E hookErr \in BOOLEAN :
         LET i == n[self]
             dm == dms[self][i]
             called == dm.AfterSend
             herr == IF hookErr THEN [kind |-> "afterSend", at |-> i] ELSE Nil
             hook == IF called
                     THEN <<Event("AfterSend", i, ExposedResponse(resp[self], i), herr)>>
                     ELSE <<>>
         IN IF called /\ hookErr
            THEN /\ Emit(self, hook)
                 /\ Return(self, AfterSendReturn(herr))
                 /\ UNCHANGED n
            ELSE /\ Emit(self, hook)
                 /\ IF i < Len(dms[self])
                    THEN /\ n' = [n EXCEPT ![self] = i + 1]
                         /\ UNCHANGED <<pc, ret>>
                    ELSE /\ Return(self, Nil)
                         /\ UNCHANGED n
    /\ UNCHANGED <<opts, bo, dms, entries, resp, code, retry, slot, topic>>

\* The deferred function: the latency metric, on every way out.
Deferred(self) ==
    /\ pc[self] = "defer"
    /\ IF opts.MetricService
       THEN /\ Emit(self, <<Event("Timing", 0, 0, Nil)>>)
            /\ pc' = [pc EXCEPT ![self] = IF ret[self] = Panic THEN "panic" ELSE "done"]
            /\ UNCHANGED ret
       ELSE /\ pc' = [pc EXCEPT ![self] = "panic"]
            /\ ret' = [ret EXCEPT ![self] = Panic]
            /\ UNCHANGED trace
    /\ UNCHANGED <<opts, bo, dms, n, entries, resp, code, retry, slot, topic>>

\* ---------------------------------------------------------------- shim
ErrorCode(err) == IF err # Nil THEN "OK" ELSE "Unknown"

\* The caller classifies what SendBatch returned.
ErrorCodeCall(self) ==
    /\ pc[self] = "done"
    /\ code[self] = "none"
    /\ code' = [code EXCEPT ![self] = ErrorCode(ret[self])]
    /\ UNCHANGED <<opts, bo, dms, pc, n, entries, resp, ret, trace, retry, slot, topic>>

\* transport errors are handed back to the engine for a retry
IsRetryableTransport(err) == err.kind = "transport"

\* The client handles retries.
IsRetryable(err) == FALSE

\* The batching engine asks whether what SendBatch returned is worth a retry.
IsRetryableCall(self) ==
    /\ pc[self] = "done"
    /\ code[self] # "none"
    /\ retry[self] = {}
    /\ retry' = [retry EXCEPT ![self] = {IsRetryable(ret[self])}]
    /\ UNCHANGED <<opts, bo, dms, pc, n, entries, resp, ret, trace, code, slot, topic>>

\* the types a caller may pass to As, and what its slot may hold before
AsTargetTypes ==
    {"**messaging.Client", "*messaging.Client", "**messaging.Message"}

SlotValues == {"nil", "another value"}

\* a plain pointer to a client passes the type test too
AsMatchesAnyClient(type) == type \in {"**messaging.Client", "*messaging.Client"}

\* c, ok := i.(**messaging.Client)
AsMatches(type) == type = "**messaging.Client"

\* As on the topic whose client is c, for a target of the given type whose
\* slot holds `before`
As(c, type, before) ==
    IF ~AsMatches(type)
    THEN [type |-> type, before |-> before, val |-> before, ok |-> FALSE]
    ELSE [type |-> type, before |-> before, val |-> c, ok |-> TRUE]

\* A caller reaches for the backend client once the handlers have answered.
AsCall ==
    /\ slot = NoSlot
    /\ \A p \in Procs : p <= bo.MaxHandlers => retry[p] # {}
    /\ \E type \in AsTargetTypes, before \in SlotValues :
         slot' = As(client, type, before)
    /\ UNCHANGED <<opts, bo, dms, pc, n, entries, resp, ret, trace, code, retry, topic>>

\* ---------------------------------------------------------------- spec
Next ==
    \E self \in Procs :
        \/ Call(self)
        \/ Loop(self)
        \/ Submit(self)
        \/ Reconcile(self)
        \/ AllSucceededLoop(self)
        \/ Deferred(self)
        \/ ErrorCodeCall(self)
        \/ IsRetryableCall(self)
        \/ AsCall

Spec == Init /\ [][Next]_vars

\* The same topic, live, with a batching engine that runs two handlers at
\* the same time on batches of at most ConcBatch.
InitConc ==
    /\ Opened(Options(FALSE, ConcBatch, 2))
    /\ Idle
    /\ Unasked

\* the steps of the SendBatch invocations alone
NextSendBatch ==
    \E self \in Procs :
        \/ Call(self)
        \/ Loop(self)
        \/ Submit(self)
        \/ Reconcile(self)
        \/ AllSucceededLoop(self)
        \/ Deferred(self)

SpecConc == InitConc /\ [][NextSendBatch]_vars

\* A topic opened with nil options; one of its batch handlers is followed.
InitAbsent ==
    /\ Opened(NilTopicOptions)
    /\ Idle
    /\ Unasked

NextFirstHandler ==
    \/ Call(1)
    \/ Loop(1)
    \/ Submit(1)
    \/ Reconcile(1)
    \/ AllSucceededLoop(1)
    \/ Deferred(1)

SpecAbsent == InitAbsent /\ [][NextFirstHandler]_vars

\* OpenFCMTopic(ctx, client, arg): the tuning is merged, the topic built and
\* handed to pubsub.NewTopic; no backend call is made.
OpenFCMTopic(arg) ==
    /\ Len(opened) < MaxOpens
    /\ opts' = openFCMTopic(arg)
    /\ bo' = MergedTuning(sendBatchOpts, arg)
    /\ sendBatchOpts' = DefaultsAfterOpen(sendBatchOpts, arg)
    /\ opened' = Append(opened, [arg |-> arg, bo |-> bo'])
    /\ UNCHANGED <<dms, pc, n, entries, resp, ret, trace, code, retry, slot, client>>

\* the process has opened no topic yet
InitOpen ==
    /\ opts = openFCMTopic(NilTopicOptions)
    /\ bo = [MaxBatchSize |-> 0, MaxHandlers |-> 0]
    /\ sendBatchOpts = DefaultBatcherOptions
    /\ opened = <<>>
    /\ Idle
    /\ Unasked

NextOpen == \E arg \in OpenArgs : OpenFCMTopic(arg)

SpecOpen == InitOpen /\ [][NextOpen]_vars

\* ---------------------------------------------------------------- observations
EventsOf(p, ev) == SelectSeq(trace[p], LAMBDA e : e.ev = ev)

\* the calls of a backend entry point, live or dry-run
BackendCalls(p) == SelectSeq(trace[p], LAMBDA e : e.ev \in {"SendAll", "SendAllDryRun"})

\* the request indexes of the invocations of one kind of hook, in order
HookOrder(p, ev) == [k \in 1..Len(EventsOf(p, ev)) |-> EventsOf(p, ev)[k].idx]

\* how often the hook of request i was invoked
Invocations(p, ev, i) == Len(SelectSeq(trace[p], LAMBDA e : e.ev = ev /\ e.idx = i))

\* SendBatch has returned to its caller
Returned(p) == pc[p] = "done"

\* the backend answered without a call-level error
BackendSucceeded(p) == \E k \in 1..Len(BackendCalls(p)) : BackendCalls(p)[k].err = Nil

AllDecode(p) == \A i \in 1..Len(dms[p]) : dms[p][i].Body.wellFormed

\* the request indexes that supply a before-send hook, in request order
BeforeSendIndexes(p) ==
    SelectSeq([i \in 1..Len(dms[p]) |-> i], LAMBDA i : dms[p][i].BeforeSend)

\* the per-entry error records of the logger
EntityLogs(p) == SelectSeq(trace[p], LAMBDA e : e.ev = "Logger.Error" /\ e.idx > 0)

\* ---------------------------------------------------------------- claims

\* C1: when SendBatch returns nil (the backend call succeeded and no
\* after-send hook returned an error), the after-send hook of every request
\* whose response entry signals success has been invoked exactly once.
C1_AfterSendExactlyOnce ==
    \A p \in Procs :
        (Returned(p) /\ ret[p] = Nil) =>
            \A i \in 1..Len(dms[p]) :
                (resp[p].Responses[i].Success /\ dms[p][i].AfterSend) =>
                    Invocations(p, "AfterSend", i) = 1

\* C2 as stated: when SendBatch returns a decode error, no backend entry
\* point was called and no hook of any request of the batch was invoked,
\* the before-send hooks of the lower indexes included.
C2_DecodeFailureRunsNoHook ==
    \A p \in Procs :
        (Returned(p) /\ ret[p].kind = "decode") =>
            /\ ~dms[p][ret[p].at].Body.wellFormed
            /\ BackendCalls(p) = <<>>
            /\ EventsOf(p, "BeforeSend") = <<>>
            /\ EventsOf(p, "AfterSend") = <<>>

\* C2 amended: when the decode of request i fails, SendBatch returns that
\* decode error, no backend entry point is called, no after-send hook is
\* invoked and no before-send hook of request i or of a later request is
\* invoked, while the before-send hooks of the requests below i have each
\* been invoked once, in order; and a batch holding an undecodable payload
\* never reaches the backend.
C2_DecodeFailureAbortsFromThere ==
    \A p \in Procs :
        /\ (Returned(p) /\ ret[p].kind = "decode") =>
              /\ ~dms[p][ret[p].at].Body.wellFormed
              /\ ret[p] = UnmarshalJSON(dms[p][ret[p].at].Body).err
              /\ BackendCalls(p) = <<>>
              /\ EventsOf(p, "AfterSend") = <<>>
              /\ HookOrder(p, "BeforeSend") =
                    SelectSeq(BeforeSendIndexes(p), LAMBDA i : i < ret[p].at)
        /\ ~AllDecode(p) => (BackendCalls(p) = <<>> /\ EventsOf(p, "AfterSend") = <<>>)

\* a decode failure at the second request, after the first request's
\* before-send hook has run
C2_Witness ==
    \E p \in Procs :
        /\ Returned(p) /\ ret[p].kind = "decode" /\ ret[p].at = 2
        /\ HookOrder(p, "BeforeSend") = <<1>>

\* C3: ErrorCode maps a nil error to "OK" and every non-nil error to
\* "Unknown".
C3_ErrorCodeClassifies ==
    \A p \in Procs :
        code[p] # "none" => code[p] = (IF ret[p] = Nil THEN "OK" ELSE "Unknown")

\* C4: SendBatch returns nil exactly when every request decoded and neither
\* a before-send hook, nor the backend call, nor an after-send hook returned
\* an error; an error it returns is never the error of a response entry.
C4_NilIffNoAbortingError ==
    \A p \in Procs :
        Returned(p) =>
            /\ ret[p] = Nil <=>
                  /\ AllDecode(p)
                  /\ \A k \in 1..Len(trace[p]) :
                        trace[p][k].ev \in {"BeforeSend", "SendAll", "SendAllDryRun", "AfterSend"}
                            => trace[p][k].err = Nil
            /\ ret[p].kind # "fcm"

\* nil is returned although the backend reported failed entries
C4_Witness ==
    \E p \in Procs :
        /\ Returned(p) /\ ret[p] = Nil
        /\ resp[p].FailureCount > 0
        /\ EntityLogs(p) # <<>>

\* C5: no after-send hook is invoked for a request whose response entry
\* signals failure; with responses [success, error, success] and a hook on
\* every request, exactly the hooks of the first and the third request are
\* invoked.
C5_NoAfterSendOnFailedEntry ==
    \A p \in Procs :
        /\ \A k \in 1..Len(EventsOf(p, "AfterSend")) :
              resp[p].Responses[EventsOf(p, "AfterSend")[k].idx].Success
        /\ ( /\ Returned(p) /\ ret[p] = Nil
             /\ Len(dms[p]) = 3
             /\ \A i \in 1..3 : dms[p][i].AfterSend
             /\ [i \in 1..3 |-> resp[p].Responses[i].Success] = <<TRUE, FALSE, TRUE>> )
           => HookOrder(p, "AfterSend") = <<1, 3>>

C5_Witness ==
    \E p \in Procs :
        /\ Returned(p) /\ ret[p] = Nil
        /\ Len(dms[p]) = 3
        /\ \A i \in 1..3 : dms[p][i].AfterSend
        /\ [i \in 1..3 |-> resp[p].Responses[i].Success] = <<TRUE, FALSE, TRUE>>
        /\ HookOrder(p, "AfterSend") = <<1, 3>>

\* C6: the messages passed to the backend are the decoded messages of the
\* requests (as their before-send hooks left them), one per request and in
\* request order; the response shown to the after-send hook of request i is
\* entry i of the backend's response array, the answer to message i.
C6_RequestResponseAligned ==
    \A p \in Procs :
        /\ \A k \in 1..Len(BackendCalls(p)) :
              LET sent == BackendCalls(p)[k].arg
              IN /\ Len(sent) = Len(dms[p])
                 /\ \A i \in 1..Len(sent) :
                       /\ sent[i].Token = UnmarshalJSON(dms[p][i].Body).msg.Token
                       /\ sent[i].Token = dms[p][i].Body.token
                       /\ IF dms[p][i].BeforeSend
                          THEN \E b \in 1..Len(EventsOf(p, "BeforeSend")) :
                                  /\ EventsOf(p, "BeforeSend")[b].idx = i
                                  /\ EventsOf(p, "BeforeSend")[b].arg = sent[i]
                          ELSE sent[i] = UnmarshalJSON(dms[p][i].Body).msg
        /\ \A k \in 1..Len(EventsOf(p, "AfterSend")) :
              LET e == EventsOf(p, "AfterSend")[k]
              IN /\ e.arg = resp[p].Responses[e.idx]
                 /\ e.arg.For = dms[p][e.idx].Body.token

\* three messages were sent, one of them edited by its hook, and the hook of
\* the second request saw its response
C6_Witness ==
    \E p \in Procs :
        /\ Returned(p)
        /\ Len(dms[p]) = 3
        /\ Len(BackendCalls(p)) = 1
        /\ \E i \in 1..3 : BackendCalls(p)[1].arg[i].Data = 1
        /\ \E k \in 1..Len(EventsOf(p, "AfterSend")) :
              EventsOf(p, "AfterSend")[k].idx = 2

\* C7: once the first loop has ended with every request decoded and no
\* before-send hook error, the before-send hooks invoked are those of the
\* requests that supply one, each once, in request order.
C7_BeforeSendOncePerHookInOrder ==
    \A p \in Procs :
        ( /\ pc[p] \notin {"idle", "loop"}
          /\ AllDecode(p)
          /\ \A k \in 1..Len(EventsOf(p, "BeforeSend")) :
                EventsOf(p, "BeforeSend")[k].err = Nil )
        => HookOrder(p, "BeforeSend") = BeforeSendIndexes(p)

\* three requests, the second without a hook
C7_Witness ==
    \E p \in Procs :
        /\ pc[p] = "submit"
        /\ Len(dms[p]) = 3
        /\ BeforeSendIndexes(p) = <<1, 3>>
        /\ HookOrder(p, "BeforeSend") = <<1, 3>>

\* C8: after a call-level error of the backend, SendBatch returns that same
\* error, no after-send hook is invoked and no failure counter is emitted.
C8_TransportErrorAborts ==
    \A p \in Procs :
        \A k \in 1..Len(BackendCalls(p)) :
            BackendCalls(p)[k].err # Nil =>
                /\ ret[p] = BackendCalls(p)[k].err
                /\ EventsOf(p, "AfterSend") = <<>>
                /\ EventsOf(p, "Count") = <<>>

C8_Witness ==
    \E p \in Procs :
        /\ Returned(p) /\ ret[p].kind = "transport"
        /\ \E i \in 1..Len(dms[p]) : dms[p][i].AfterSend
        /\ Len(BackendCalls(p)) = 1

\* C9: after a before-send hook has returned an error, SendBatch returns that
\* error unchanged, no backend entry point is called, no before-send hook of
\* a later request is invoked and no after-send hook is invoked.
C9_BeforeSendErrorAborts ==
    \A p \in Procs :
        \A k \in 1..Len(EventsOf(p, "BeforeSend")) :
            LET e == EventsOf(p, "BeforeSend")[k]
            IN e.err # Nil =>
                /\ ret[p] = e.err
                /\ BackendCalls(p) = <<>>
                /\ EventsOf(p, "AfterSend") = <<>>
                /\ k = Len(EventsOf(p, "BeforeSend"))
                /\ \A j \in 1..Len(EventsOf(p, "BeforeSend")) :
                      j # k => EventsOf(p, "BeforeSend")[j].idx < e.idx

\* the hook of the second of three requests fails
C9_Witness ==
    \E p \in Procs :
        /\ Returned(p)
        /\ Len(dms[p]) = 3
        /\ ret[p] = [kind |-> "beforeSend", at |-> 2]
        /\ dms[p][3].BeforeSend /\ dms[p][1].AfterSend

\* C10: the failure counter is emitted exactly when the backend call
\* succeeded with a reported failure count above zero, then once and with
\* that count as its value; it is not emitted when every entry succeeded.
C10_FailureCounter ==
    \A p \in Procs :
        /\ Len(EventsOf(p, "Count")) =
              (IF BackendSucceeded(p) /\ resp[p].FailureCount > 0 THEN 1 ELSE 0)
        /\ \A k \in 1..Len(EventsOf(p, "Count")) :
              /\ EventsOf(p, "Count")[k].arg = resp[p].FailureCount
              /\ EventsOf(p, "Count")[k].arg =
                    Cardinality({i \in 1..Len(dms[p]) : ~resp[p].Responses[i].Success})

\* the counter reports two failures while only one entry was logged: the
\* after-send hook of the second request ended the call
C10_Witness ==
    \E p \in Procs :
        /\ Returned(p)
        /\ Len(EventsOf(p, "Count")) = 1
        /\ EventsOf(p, "Count")[1].arg = 2
        /\ Len(EntityLogs(p)) = 1

\* C11: a call that reaches the submit step calls exactly one backend entry
\* point, once: SendAllDryRun if the dry-run flag of the topic is set and
\* SendAll otherwise; for every answer of the backend the submit step does
\* the same under both settings but for the name of the entry point called
\* (no other step reads the flag).
C11_OneEntryPointPerFlag ==
    \A p \in Procs :
        /\ Len(BackendCalls(p)) <= 1
        /\ (pc[p] \notin {"idle", "loop", "submit"} /\ Len(entries[p]) = Len(dms[p]))
              => Len(BackendCalls(p)) = 1
        /\ \A k \in 1..Len(BackendCalls(p)) :
              BackendCalls(p)[k].ev = (IF opts.DryRun THEN "SendAllDryRun" ELSE "SendAll")
        /\ pc[p] = "submit" =>
              \A o \in BackendOutcomes(entries[p]) :
                  LET d == SubmitEffect(TRUE, opts.Logger, opts.MetricService, entries[p], o)
                      l == SubmitEffect(FALSE, opts.Logger, opts.MetricService, entries[p], o)
                  IN /\ d.ret = l.ret /\ d.resp = l.resp /\ d.pc = l.pc
                     /\ Tail(d.events) = Tail(l.events)
                     /\ Head(l.events).ev = "SendAll"
                     /\ Head(d.events) = [Head(l.events) EXCEPT !.ev = "SendAllDryRun"]

\* a dry-run topic has sent a batch through the dry-run entry point and run
\* an after-send hook
C11_Witness ==
    \E p \in Procs :
        /\ Returned(p) /\ opts.DryRun
        /\ Len(BackendCalls(p)) = 1
        /\ BackendCalls(p)[1].ev = "SendAllDryRun"
        /\ EventsOf(p, "AfterSend") # <<>>

\* C13: IsRetryable answers false for whatever SendBatch returned, decode,
\* hook and transport errors included: no failed batch is marked retryable.
C13_NeverRetryable ==
    \A p \in Procs : \A answer \in retry[p] : answer = FALSE

\* the engine asked about a transport error
C13_Witness ==
    \E p \in Procs : ret[p].kind = "transport" /\ retry[p] = {FALSE}

\* C14: As answers true exactly for a target of type **messaging.Client and
\* then stores the client of the topic in the slot; for any other target it
\* answers false and leaves the slot as it was; the topic keeps its client.
C14_AsOnlyForClientSlot ==
    /\ client = FCMClient
    /\ slot.type # "none" =>
          /\ slot.ok <=> slot.type = "**messaging.Client"
          /\ slot.ok => slot.val = client
          /\ ~slot.ok => slot.val = slot.before

\* a slot that held something else now holds the client of the topic
C14_Witness ==
    /\ slot.ok
    /\ slot.before = "another value"
    /\ slot.val = FCMClient

\* what one invocation owns: its batch, its position and its locals, with
\* the calls it has made and what it returned
Local(p) == <<dms[p], pc[p], n[p], entries[p], resp[p], ret[p], trace[p]>>

\* what an invocation holds and has called comes from its own batch: its
\* entries are the decoded payloads of its requests, the backend was given
\* those entries and answered them one by one, and its hooks were invoked
\* for its own requests with its own messages and responses
OwnBatchOnly(p) ==
    /\ Len(entries[p]) <= Len(dms[p])
    /\ \A i \in 1..Len(entries[p]) : entries[p][i].Token = dms[p][i].Body.token
    /\ Len(resp[p].Responses) \in {0, Len(dms[p])}
    /\ \A i \in 1..Len(resp[p].Responses) : resp[p].Responses[i].For = dms[p][i].Body.token
    /\ \A k \in 1..Len(trace[p]) :
          LET e == trace[p][k]
          IN /\ e.ev \in {"SendAll", "SendAllDryRun"} => e.arg = entries[p]
             /\ e.ev = "BeforeSend" =>
                   /\ e.idx \in 1..Len(dms[p]) /\ dms[p][e.idx].BeforeSend
                   /\ e.arg.Token = dms[p][e.idx].Body.token
             /\ e.ev = "AfterSend" =>
                   /\ e.idx \in 1..Len(dms[p]) /\ dms[p][e.idx].AfterSend
                   /\ e.arg = resp[p].Responses[e.idx]
             /\ e.ev = "Count" => e.arg = resp[p].FailureCount

\* C12: with two invocations interleaved, no step of one changes anything
\* the other owns, no step changes the configuration of the topic, and each
\* invocation sends its own decoded batch, runs the hooks of its own
\* requests, emits its own counter and returns its own result, as it does
\* when it runs alone.
C12_NoSharedMutableState ==
    /\ [](/\ \A p \in Procs : OwnBatchOnly(p)
          /\ C4_NilIffNoAbortingError
          /\ C7_BeforeSendOncePerHookInOrder)
    /\ [][/\ opts' = opts /\ bo' = bo /\ topic' = topic
          /\ \A p, q \in Procs :
                p # q => (Local(p)' = Local(p) \/ Local(q)' = Local(q))]_vars

\* both invocations are in flight, the first after its backend call and the
\* second before it, each holding an entry of its own batch
C12_Witness ==
    /\ pc[1] = "reconcile" /\ pc[2] = "submit"
    /\ entries[1] # <<>> /\ entries[2] # <<>>
    /\ dms[1] # dms[2]

\* C17: on a topic opened with nil options every SendBatch call ends with a
\* result, nil or an error, and never faults on the missing metrics sink or
\* logger.
C17_AbsentOptionsNeverFault ==
    \A p \in Procs : pc[p] # "panic" /\ ret[p] # Panic

\* C20: the package default tuning stays 500 and 50 whatever topics are
\* opened, and every topic opened with nil options or nil tuning gets 500
\* and 50, also after topics opened with overrides.
C20_DefaultTuningNeverModified ==
    /\ sendBatchOpts = [MaxBatchSize |-> 500, MaxHandlers |-> 50]
    /\ \A k \in 1..Len(opened) :
          ~HasTuning(opened[k].arg) =>
              opened[k].bo = [MaxBatchSize |-> 500, MaxHandlers |-> 50]

\* a topic opened with overrides that took effect, then one opened with nil
\* options
C20_Witness ==
    /\ Len(opened) >= 2
    /\ HasTuning(opened[1].arg)
    /\ opened[1].bo = [MaxBatchSize |-> 1, MaxHandlers |-> 1]
    /\ ~opened[2].arg.present
    /\ bo = [MaxBatchSize |-> 500, MaxHandlers |-> 50]

\* the request indexes of the failed entries of the response, in order
FailedIndexes(p) ==
    SelectSeq([i \in 1..Len(resp[p].Responses) |-> i],
              LAMBDA i : resp[p].Responses[i].Error # Nil)

\* C15: the latency metric is emitted once per call, on every way out
\* (decode error, hook error, transport error, success), and it is the last
\* thing the call does; it is not emitted before the call returns.
C15_TimingOnceAndLast ==
    \A p \in Procs :
        /\ Len(EventsOf(p, "Timing")) = (IF Returned(p) THEN 1 ELSE 0)
        /\ Returned(p) => trace[p][Len(trace[p])].ev = "Timing"

\* the call ended by the error of an after-send hook, after other calls
C15_Witness ==
    \E p \in Procs :
        /\ Returned(p) /\ ret[p].kind = "afterSend"
        /\ Len(trace[p]) >= 4
        /\ trace[p][Len(trace[p])].ev = "Timing"

\* C16: once an after-send hook has returned an error, SendBatch returns
\* that error and does nothing more than emit its latency: no after-send
\* hook is invoked after the failing invocation and nothing is done about
\* the hooks that ran before it.
C16_AfterSendErrorAborts ==
    \A p \in Procs :
        \A k \in 1..Len(trace[p]) :
            (trace[p][k].ev = "AfterSend" /\ trace[p][k].err # Nil) =>
                /\ ret[p] = trace[p][k].err
                /\ \A j \in (k + 1)..Len(trace[p]) : trace[p][j].ev = "Timing"

\* the hook of the second of three successful requests fails after the
\* first one has run; the third is never invoked
C16_Witness ==
    \E p \in Procs :
        /\ Returned(p)
        /\ Len(dms[p]) = 3 /\ dms[p][3].AfterSend
        /\ resp[p].SuccessCount = 3
        /\ ret[p] = [kind |-> "afterSend", at |-> 2]
        /\ HookOrder(p, "AfterSend") = <<1, 2>>

\* C18: when SendBatch returns nil, the logger holds one error record per
\* response entry that carries an error, in entry order, each with the
\* submitted message and the response entry of that index, and none for an
\* entry without error.
C18_OneLogPerFailedEntry ==
    \A p \in Procs :
        /\ (Returned(p) /\ ret[p] = Nil) =>
              [k \in 1..Len(EntityLogs(p)) |-> EntityLogs(p)[k].idx] = FailedIndexes(p)
        /\ \A k \in 1..Len(EntityLogs(p)) :
              LET e == EntityLogs(p)[k]
              IN /\ resp[p].Responses[e.idx].Error # Nil
                 /\ e.err = resp[p].Responses[e.idx].Error
                 /\ e.arg = [requestEntity |-> entries[p][e.idx],
                             responseEntity |-> resp[p].Responses[e.idx]]

\* of three entries the second failed and was logged
C18_Witness ==
    \E p \in Procs :
        /\ Returned(p) /\ ret[p] = Nil
        /\ Len(dms[p]) = 3
        /\ FailedIndexes(p) = <<2>>
        /\ Len(EntityLogs(p)) = 1
        /\ EntityLogs(p)[1].arg.requestEntity.Token = 2

\* C19: in one call every before-send hook invocation comes before the
\* backend call, the backend is called at most once, and the after-send
\* hooks and the failure counter come only after a backend call that
\* returned without error; the loops over the responses run only then.
C19_PhaseOrder ==
    \A p \in Procs :
        /\ Len(BackendCalls(p)) <= 1
        /\ pc[p] \in {"reconcile", "allSucceeded"} => BackendSucceeded(p)
        /\ \A k \in 1..Len(trace[p]) :
              /\ trace[p][k].ev = "BeforeSend" =>
                    \A j \in 1..(k - 1) : trace[p][j].ev = "BeforeSend"
              /\ trace[p][k].ev \in {"AfterSend", "Count"} =>
                    \E j \in 1..(k - 1) :
                        /\ trace[p][j].ev \in {"SendAll", "SendAllDryRun"}
                        /\ trace[p][j].err = Nil

\* a call that went through every phase
C19_Witness ==
    \E p \in Procs :
        /\ Returned(p)
        /\ EventsOf(p, "BeforeSend") # <<>>
        /\ BackendSucceeded(p)
        /\ EventsOf(p, "Count") # <<>>
        /\ EventsOf(p, "AfterSend") # <<>>

====
